---- MODULE Spec2Model ----
(***************************************************************************)
(* Model of the remotetrash VS Code extension (src/src/extension.ts):     *)
(* the remotetrash.delete command handler, the helpers it calls, and the   *)
(* host collaborators it awaits (clipboard, prompts, file system, tabs).   *)
(*                                                                         *)
(* File names are sequences of one-character strings ("n.t" is            *)
(* <<"n", ".", "t">>), a path is the sequence of its segments, and the     *)
(* clipboard text is the sequence of its lines.                            *)
(***************************************************************************)
EXTENDS Integers, Sequences, FiniteSets, TLC

(***************************************************************************)
(* Bounds of the model.                                                    *)
(***************************************************************************)
MaxFiles == 3        \* longest explicit target list / explorer selection
MaxNameLen == 3      \* longest base name drawn for getUniqueTrashName alone
MaxTaken == 4        \* largest numbered candidate drawn freely into existingNames
MaxRun == 10         \* longest run of taken candidates 2..MaxRun

(***************************************************************************)
(* Strings.                                                                *)
(***************************************************************************)
Digit(d) ==
    CASE d = 0 -> "0" [] d = 1 -> "1" [] d = 2 -> "2" [] d = 3 -> "3"
      [] d = 4 -> "4" [] d = 5 -> "5" [] d = 6 -> "6" [] d = 7 -> "7"
      [] d = 8 -> "8" [] d = 9 -> "9"

RECURSIVE NumberToString(_)
\* `${counter}`: the decimal digits of a natural number
NumberToString(n) ==
    IF n < 10 THEN <<Digit(n)>>
    ELSE NumberToString(n \div 10) \o <<Digit(n % 10)>>

LastDot(s) ==
    LET dots == {i \in 1..Len(s) : s[i] = "."}
    IN  IF dots = {} THEN 0 ELSE CHOOSE i \in dots : \A j \in dots : j <= i

\* path.extname on a name without separators: from the last "." to the end;
\* empty when there is no ".", when the only "." is the first character, and
\* for "..".
extname(s) ==
    LET d == LastDot(s)
    IN  IF d = 0 \/ d = 1 \/ s = <<".", ".">> THEN <<>>
        ELSE SubSeq(s, d, Len(s))

\* path.basename(name, ext) on a name without separators: the name with the
\* suffix ext removed, when ext is non-empty, is a suffix and is not all of it.
basename(s, ext) ==
    IF /\ Len(ext) > 0
       /\ Len(ext) < Len(s)
       /\ SubSeq(s, Len(s) - Len(ext) + 1, Len(s)) = ext
    THEN SubSeq(s, 1, Len(s) - Len(ext))
    ELSE s

(***************************************************************************)
(* getUniqueTrashName                                                      *)
(***************************************************************************)
FirstCounter == 2

\* `${nameWithoutExt}.${counter}${ext}`
NewName(baseName, counter) ==
    LET ext == extname(baseName)
        nameWithoutExt == basename(baseName, ext)
    IN  nameWithoutExt \o <<".">> \o NumberToString(counter) \o ext

\* lines 69-76: return baseName when it is free, else enter the loop
EnterBody(baseName, existingNames) ==
    IF baseName \notin existingNames
    THEN [ret |-> TRUE, val |-> baseName, counter |-> 0]
    ELSE [ret |-> FALSE, val |-> <<>>, counter |-> FirstCounter]

\* mutant: the counter advances by two, skipping candidates
LoopBody_skipsOne(baseName, existingNames, counter) ==
    IF NewName(baseName, counter) \notin existingNames
    THEN [ret |-> TRUE, val |-> NewName(baseName, counter), counter |-> counter]
    ELSE [ret |-> FALSE, val |-> <<>>, counter |-> counter + 2]

\* lines 78-82: one pass of the while (true) loop
LoopBody(baseName, existingNames, counter) ==
    IF NewName(baseName, counter) \notin existingNames
    THEN [ret |-> TRUE, val |-> NewName(baseName, counter), counter |-> counter]
    ELSE [ret |-> FALSE, val |-> <<>>, counter |-> counter + 1]

RECURSIVE UniqueFrom(_, _, _)
UniqueFrom(baseName, existingNames, counter) ==
    LET r == LoopBody(baseName, existingNames, counter)
    IN  IF r.ret THEN r.val
        ELSE UniqueFrom(baseName, existingNames, r.counter)

getUniqueTrashName(baseName, existingNames) ==
    LET r == EnterBody(baseName, existingNames)
    IN  IF r.ret THEN r.val
        ELSE UniqueFrom(baseName, existingNames, r.counter)

(***************************************************************************)
(* The world of one invocation.                                            *)
(***************************************************************************)
NameNT == <<"n", ".", "t">>          \* "n.t"
NameX == <<"x">>                      \* "x", no extension
P1 == << <<"a">>, NameNT >>           \* /a/n.t
P2 == << <<"b">>, NameNT >>           \* /b/n.t, same base name as P1
P3 == << <<"a">>, NameX >>            \* /a/x
Paths == {P1, P2, P3}
NoUri == <<>>                         \* an undefined uri argument
TextX == << <<"X">> >>                \* the path Uri.file makes of the text "X"

RECURSIVE SeqsUpTo(_, _)
SeqsUpTo(S, n) ==
    IF n = 0 THEN {<<>>}
    ELSE LET shorter == SeqsUpTo(S, n - 1)
         IN  shorter \cup {Append(q, x) : q \in {r \in shorter : Len(r) = n - 1}, x \in S}

TargetLists == SeqsUpTo(Paths, MaxFiles)
Range(q) == {q[i] : i \in 1..Len(q)}

\* A line of clipboard text: leading/trailing white space or not, and what
\* is left once trimmed (<<>> when the line holds white space only).
Line(pad, body) == [pad |-> pad, body |-> body]
EmptyText == <<Line(FALSE, <<>>)>>    \* "": one empty line
ClipTexts == {EmptyText, <<Line(FALSE, TextX)>>, <<Line(TRUE, <<>>)>>}

\* the text copyFilePath writes: the selected paths, one per line
SelectionText(sel) == [i \in 1..Len(sel) |-> Line(FALSE, sel[i])]

\* String.prototype.trim on a line
trim(line) == line.body

\* clipboardContent.split("\n").filter((p) => p.trim())
RECURSIVE FilterLines(_)
FilterLines(text) ==
    IF text = <<>> THEN <<>>
    ELSE IF trim(Head(text)) = <<>> THEN FilterLines(Tail(text))
         ELSE <<Head(text)>> \o FilterLines(Tail(text))

\* paths.map((p) => vscode.Uri.file(p.trim()))
ParseClipboard(text) ==
    LET paths == FilterLines(text)
    IN  [i \in 1..Len(paths) |-> trim(paths[i])]

\* the sidecar's name: `${trashName}.trashinfo`
InfoName(trashName) == Append(trashName, ".trashinfo")

\* new Date(): seconds and milliseconds
Times == {[sec |-> 7, ms |-> 0], [sec |-> 7, ms |-> 250]}
\* deletionDate.toISOString().split(".")[0]
IsoSeconds(now) == now.sec

Sidecar(name, path, date) == [name |-> name, Path |-> path, DeletionDate |-> date]
OldSidecar(trashName) == Sidecar(InfoName(trashName), << <<"o">>, trashName >>, 1)

\* what the trash directories may hold before the command runs
TrashStates ==
    { [dirs |-> FALSE, names |-> {}],
      [dirs |-> TRUE, names |-> {NameNT}],
      [dirs |-> TRUE, names |-> {NameNT, NewName(NameNT, FirstCounter)}] }

\* the open tabs and the ones with unsaved changes
TabStates ==
    { t \in [open : SUBSET Paths, dirty : {{}, {P1}}] : t.dirty \subseteq t.open }

VARIABLES
    pc,             \* where the handler is: idle, copy, read, check, confirm,
                    \* loop, apply, close, done
    uri, uris,      \* the arguments of the invocation
    filesToDelete,
    clipboard,      \* the clipboard's text
    trashInstalled,
    confirm,        \* the answer to the modal prompt
    edit,           \* the WorkspaceEdit: a sequence of file operations
    files,          \* the paths that exist outside the trash
    trashDirs,      \* whether Trash/files and Trash/info exist
    trashFiles,     \* the names in Trash/files
    trashInfo,      \* the sidecars in Trash/info
    openTabs, dirtyTabs,
    shown,          \* the messages shown, in order
    clip0,          \* history: the clipboard text when the command started
    start,          \* history: the trash and the tabs when the command started
    clipLog,        \* history: the clipboard operations and copy commands issued
    checkCount,     \* history: calls of checkTrashInstalled
    passed,         \* history: the files handed to deleteWithWorkspaceEdit
    applyLog,       \* history: one record per applyEdit call
    declined,       \* history: tabs the user refused to close
    uPc, uBase, uExisting, uCounter, uResult   \* getUniqueTrashName run alone

mainVars == <<pc, uri, uris, filesToDelete, clipboard, trashInstalled, confirm,
              edit, files, trashDirs, trashFiles, trashInfo, openTabs, dirtyTabs,
              shown, clip0, start, clipLog, checkCount, passed, applyLog,
              declined>>
unitVars == <<uPc, uBase, uExisting, uCounter, uResult>>
vars == <<mainVars, unitVars>>

fsVars == <<files, trashDirs, trashFiles, trashInfo>>
tabVars == <<openTabs, dirtyTabs, declined>>
clipVars == <<clipboard, clipLog>>

Msg(kind, text) == [kind |-> kind, text |-> text]
Show(kind, text) == shown' = Append(shown, Msg(kind, text))

UnitOff ==
    /\ uPc = "off" /\ uBase = <<>> /\ uExisting = {} /\ uCounter = 0
    /\ uResult = <<>>

Init ==
    /\ pc = "idle"
    /\ uri = NoUri /\ uris = <<>> /\ filesToDelete = <<>>
    /\ clipboard \in ClipTexts
    /\ clip0 = clipboard
    /\ clipLog = <<>>
    /\ trashInstalled = FALSE
    /\ confirm = "none"
    /\ edit = <<>>
    /\ files = Paths
    /\ \E t \in TrashStates :
         /\ trashDirs = t.dirs
         /\ trashFiles = t.names
         /\ trashInfo = {OldSidecar(n) : n \in t.names}
    /\ \E t \in TabStates : openTabs = t.open /\ dirtyTabs = t.dirty
    /\ start = [trashDirs |-> trashDirs, trashFiles |-> trashFiles,
                trashInfo |-> trashInfo, openTabs |-> openTabs,
                dirtyTabs |-> dirtyTabs]
    /\ shown = <<>>
    /\ checkCount = 0
    /\ passed = <<>>
    /\ applyLog = <<>>
    /\ declined = {}
    /\ UnitOff

(***************************************************************************)
(* remotetrash.delete: target resolution (lines 131-168)                   *)
(***************************************************************************)
\* mutant: the single explicit path is tested first
ExplicitTargets_uriFirst(u, us) ==
    IF u # NoUri THEN <<u>>
    ELSE IF Len(us) > 0 THEN us
    ELSE <<>>

\* lines 135-140: the explicit list wins over the single explicit path
ExplicitTargets(u, us) ==
    IF Len(us) > 0 THEN us
    ELSE IF u # NoUri THEN <<u>>
    ELSE <<>>

\* lines 141-142: neither argument is usable
IsKeybinding(u, us) == ~(Len(us) > 0) /\ u = NoUri

Abort(kind, text) ==
    /\ Show(kind, text)
    /\ pc' = "done"

\* invoked from the context menu
InvokeExplicit ==
    /\ pc = "idle"
    /\ \E u \in {NoUri, P3}, us \in TargetLists :
         /\ ~IsKeybinding(u, us)
         /\ uri' = u /\ uris' = us
         /\ filesToDelete' = ExplicitTargets(u, us)
    /\ pc' = "check"
    /\ UNCHANGED <<clipVars, clip0, start, trashInstalled, confirm, edit, fsVars, tabVars,
                   shown, checkCount, passed, applyLog, unitVars>>

\* invoked from the keybinding: no arguments
InvokeKeybinding ==
    /\ pc = "idle"
    /\ IsKeybinding(NoUri, <<>>)
    /\ uri' = NoUri /\ uris' = <<>>
    /\ pc' = "copy"
    /\ UNCHANGED <<filesToDelete, clipVars, clip0, start, trashInstalled, confirm, edit,
                   fsVars, tabVars, shown, checkCount, passed, applyLog, unitVars>>

\* line 144: await executeCommand("copyFilePath"); the host writes the
\* selected paths to the clipboard, does nothing without a selection, or fails
CopyFilePath ==
    /\ pc = "copy"
    /\ clipLog' = Append(clipLog, "copyFilePath")
    /\ \/ /\ \E sel \in TargetLists :
               clipboard' = IF sel = <<>> THEN clipboard ELSE SelectionText(sel)
          /\ pc' = "read"
          /\ UNCHANGED shown
       \/ /\ Abort("error", "No files selected for deletion. Please select a file in the explorer.")
          /\ UNCHANGED clipboard
    /\ UNCHANGED <<uri, uris, filesToDelete, clip0, start, trashInstalled, confirm, edit,
                   fsVars, tabVars, checkCount, passed, applyLog, unitVars>>

\* lines 145-168: read the clipboard and parse it
ReadClipboard ==
    /\ pc = "read"
    /\ clipLog' = Append(clipLog, "readText")
    /\ IF clipboard # EmptyText
       THEN /\ filesToDelete' = ParseClipboard(clipboard)
            /\ IF Len(filesToDelete') = 0
               THEN Abort("error", "No files selected for deletion")
               ELSE pc' = "check" /\ UNCHANGED shown
       ELSE /\ Abort("error", "No files selected for deletion. Please select a file in the explorer.")
            /\ UNCHANGED filesToDelete
    /\ UNCHANGED <<uri, uris, clipboard, clip0, start, trashInstalled, confirm, edit,
                   fsVars, tabVars, checkCount, passed, applyLog, unitVars>>

(***************************************************************************)
(* lines 170-180: checkTrashInstalled and the warning                      *)
(***************************************************************************)
\* mutant: the return after the warning is missing
AfterCheck_noReturn(found) ==
    IF ~found
    THEN /\ Show("warning", "trash-cli is not installed. Would you like to install it now?")
         /\ pc' = "confirm"
    ELSE pc' = "confirm" /\ UNCHANGED shown

\* lines 174-180
AfterCheck(found) ==
    IF ~found
    THEN Abort("warning", "trash-cli is not installed. Would you like to install it now?")
    ELSE pc' = "confirm" /\ UNCHANGED shown

CheckTrash ==
    /\ pc = "check"
    /\ checkCount' = checkCount + 1
    /\ \E found \in BOOLEAN :
         /\ trashInstalled' = found
         /\ AfterCheck(found)
    /\ UNCHANGED <<uri, uris, filesToDelete, clipVars, clip0, start, confirm, edit, fsVars,
                   tabVars, passed, applyLog, unitVars>>

(***************************************************************************)
(* lines 182-199: the modal confirmation                                   *)
(***************************************************************************)
Answers == {"Move to Trash", "dismissed"}

\* mutant: the answer is not tested
AfterConfirm_noGate(answer) == pc' = "loop"

\* lines 197-199
AfterConfirm(answer) == pc' = IF answer # "Move to Trash" THEN "done" ELSE "loop"

ConfirmDeletion ==
    /\ pc = "confirm"
    /\ \E answer \in Answers :
         /\ confirm' = answer
         /\ AfterConfirm(answer)
    /\ UNCHANGED <<uri, uris, filesToDelete, clipVars, clip0, start, trashInstalled, edit,
                   fsVars, tabVars, shown, checkCount, passed, applyLog, unitVars>>

(***************************************************************************)
(* lines 86-122: deleteWithWorkspaceEdit                                   *)
(***************************************************************************)
NoContents == [Path |-> NoUri, DeletionDate |-> 0]
RenameOp(from, to) == [op |-> "rename", from |-> from, to |-> to, contents |-> NoContents]
CreateOp(name, contents) == [op |-> "create", from |-> NoUri, to |-> name, contents |-> contents]

\* path.basename(uri.fsPath)
fileNameOf(path) == path[Len(path)]

\* mutant: the sidecar is not added to the edit
EditOps_noSidecar(file, existingNames, now) ==
    LET trashName == getUniqueTrashName(fileNameOf(file), existingNames)
    IN  << RenameOp(file, trashName) >>

\* lines 93-121: the two operations one file adds to the edit
EditOps(file, existingNames, now) ==
    LET trashName == getUniqueTrashName(fileNameOf(file), existingNames)
    IN  << RenameOp(file, trashName),
           CreateOp(InfoName(trashName),
                    [Path |-> file, DeletionDate |-> IsoSeconds(now)]) >>

\* lines 212-214: one pass of the for loop; the awaited file-system calls of
\* ensureTrashDirectories and readDirectory may reject
DeleteStep ==
    /\ pc = "loop"
    /\ LET file == filesToDelete[Len(passed) + 1]
       IN  \/ /\ trashDirs' = TRUE
              /\ \E now \in Times :
                   edit' = edit \o EditOps(file, trashFiles, now)
              /\ passed' = Append(passed, file)
              /\ pc' = IF Len(passed') = Len(filesToDelete) THEN "apply" ELSE "loop"
              /\ UNCHANGED shown
           \/ /\ trashDirs' \in {trashDirs, TRUE}
              /\ Abort("error", "file system error")
              /\ UNCHANGED <<edit, passed>>
    /\ UNCHANGED <<uri, uris, filesToDelete, clipVars, clip0, start, trashInstalled, confirm,
                   files, trashFiles, trashInfo, tabVars, checkCount, applyLog,
                   unitVars>>

(***************************************************************************)
(* line 219: workspace.applyEdit. The host performs the file operations in *)
(* order and stops at the first one that fails; the ones before it stay.   *)
(***************************************************************************)
CanApply(o, fs) ==
    IF o.op = "rename"
    THEN o.from \in fs.files /\ o.to \notin fs.trashFiles      \* overwrite: false
    ELSE \A s \in fs.trashInfo : s.name # o.to                  \* overwrite: false

ApplyOp(o, fs) ==
    IF o.op = "rename"
    THEN [fs EXCEPT !.files = @ \ {o.from}, !.trashFiles = @ \cup {o.to},
                    !.applied = @ + 1, !.moved = Append(@, o.from)]
    ELSE [fs EXCEPT !.trashInfo = @ \cup {Sidecar(o.to, o.contents.Path, o.contents.DeletionDate)},
                    !.applied = @ + 1]

RECURSIVE RunOps(_, _, _, _)
RunOps(ops, i, fs, failAt) ==
    IF i > Len(ops) THEN fs
    ELSE IF i = failAt \/ ~CanApply(ops[i], fs) THEN fs
    ELSE RunOps(ops, i + 1, ApplyOp(ops[i], fs), failAt)

\* mutant: the result of applyEdit is not tested
AfterApply_noThrow(success) == pc' = "close" /\ UNCHANGED shown

\* lines 221-223 and the catch of lines 246-250
AfterApply(success) ==
    IF ~success
    THEN Abort("error", "Failed to apply workspace edit")
    ELSE pc' = "close" /\ UNCHANGED shown

\* lines 219-223: apply the edit once; throw when it reports failure
ApplyEdit ==
    /\ pc = "apply"
    /\ \E failAt \in 0..Len(edit) :
         LET before == [files |-> files, trashFiles |-> trashFiles,
                        trashInfo |-> trashInfo, applied |-> 0, moved |-> <<>>]
             after == RunOps(edit, 1, before, failAt)
             success == after.applied = Len(edit)
         IN  /\ files' = after.files
             /\ trashFiles' = after.trashFiles
             /\ trashInfo' = after.trashInfo
             /\ applyLog' = Append(applyLog, [success |-> success,
                                              applied |-> after.applied,
                                              moved |-> after.moved])
             /\ AfterApply(success)
    /\ UNCHANGED <<uri, uris, filesToDelete, clipVars, clip0, start, trashInstalled, confirm,
                   edit, trashDirs, tabVars, checkCount, passed, unitVars>>

(***************************************************************************)
(* lines 225-245: close the tabs of the deleted files, report success.     *)
(* The host asks before closing a tab with unsaved changes; the user may   *)
(* refuse, and the tab stays.                                              *)
(***************************************************************************)
\* mutant: only the first target's tab is looked for
TabsToClose_firstOnly == {t \in openTabs : filesToDelete[1] = t}

\* lines 226-237
TabsToClose == {t \in openTabs : \E i \in 1..Len(filesToDelete) : filesToDelete[i] = t}

CloseTabs ==
    /\ pc = "close"
    /\ \E kept \in SUBSET (TabsToClose \cap dirtyTabs) :
         /\ openTabs' = openTabs \ (TabsToClose \ kept)
         /\ dirtyTabs' = dirtyTabs \cap openTabs'
         /\ declined' = kept
    /\ Abort("info", "Successfully moved item(s) to trash")
    /\ UNCHANGED <<uri, uris, filesToDelete, clipVars, clip0, start, trashInstalled, confirm,
                   edit, fsVars, checkCount, passed, applyLog, unitVars>>

Next ==
    \/ InvokeExplicit
    \/ InvokeKeybinding
    \/ CopyFilePath
    \/ ReadClipboard
    \/ CheckTrash
    \/ ConfirmDeletion
    \/ DeleteStep
    \/ ApplyEdit
    \/ CloseTabs

Spec == Init /\ [][Next]_vars

(***************************************************************************)
(* getUniqueTrashName run alone, one loop pass per step, on base names and *)
(* sets of existing names drawn from bounded sets.                         *)
(***************************************************************************)
NameChars == {"n", ".", "2"}
BaseNames == SeqsUpTo(NameChars, MaxNameLen) \ {<<>>}

\* <name>.<k><ext>, written out from the parts of the base name
Numbered(b, k) ==
    LET ext == extname(b)
    IN  SubSeq(b, 1, Len(b) - Len(ext)) \o <<".">> \o NumberToString(k) \o ext

ExistingSets(b) ==
    (SUBSET ({b, <<"o">>} \cup {Numbered(b, k) : k \in 2..MaxTaken}))
    \cup {{b} \cup {Numbered(b, k) : k \in 2..m} : m \in 1..MaxRun}

MainOff ==
    /\ pc = "off"
    /\ uri = NoUri /\ uris = <<>> /\ filesToDelete = <<>>
    /\ clipboard = EmptyText /\ clip0 = EmptyText /\ clipLog = <<>>
    /\ trashInstalled = FALSE /\ confirm = "none" /\ edit = <<>>
    /\ files = {} /\ trashDirs = FALSE /\ trashFiles = {} /\ trashInfo = {}
    /\ openTabs = {} /\ dirtyTabs = {}
    /\ start = [trashDirs |-> FALSE, trashFiles |-> {}, trashInfo |-> {},
                openTabs |-> {}, dirtyTabs |-> {}]
    /\ shown = <<>> /\ checkCount = 0 /\ passed = <<>> /\ applyLog = <<>>
    /\ declined = {}

InitUnique ==
    /\ MainOff
    /\ uPc = "enter"
    /\ uBase \in BaseNames
    /\ uExisting \in ExistingSets(uBase)
    /\ uCounter = 0
    /\ uResult = <<>>

\* lines 69-76
UniqueEnter ==
    /\ uPc = "enter"
    /\ LET r == EnterBody(uBase, uExisting)
       IN  IF r.ret
           THEN uResult' = r.val /\ uPc' = "returned" /\ UNCHANGED uCounter
           ELSE uCounter' = r.counter /\ uPc' = "loop" /\ UNCHANGED uResult
    /\ UNCHANGED <<uBase, uExisting, mainVars>>

\* lines 77-83
UniqueLoop ==
    /\ uPc = "loop"
    /\ LET r == LoopBody(uBase, uExisting, uCounter)
       IN  IF r.ret
           THEN uResult' = r.val /\ uPc' = "returned" /\ UNCHANGED uCounter
           ELSE uCounter' = r.counter /\ UNCHANGED <<uResult, uPc>>
    /\ UNCHANGED <<uBase, uExisting, mainVars>>

NextUnique == UniqueEnter \/ UniqueLoop

\* the function is synchronous code: once called it keeps running
SpecUnique == InitUnique /\ [][NextUnique]_vars /\ WF_vars(NextUnique)

(***************************************************************************)
(* Properties.                                                             *)
(***************************************************************************)
Moved == IF applyLog = <<>> THEN <<>> ELSE applyLog[1].moved
Kinds(kind) == {i \in 1..Len(shown) : shown[i].kind = kind}
TrashUnchanged ==
    /\ trashDirs = start.trashDirs
    /\ trashFiles = start.trashFiles
    /\ trashInfo = start.trashInfo
TabsUnchanged == openTabs = start.openTabs /\ dirtyTabs = start.dirtyTabs
NothingMoved == files = Paths /\ trashFiles = start.trashFiles /\ trashInfo = start.trashInfo
StoredName(i) == edit[2 * i - 1].to

\* C1: when checkTrashInstalled reports the tool unreachable, a warning is
\* shown, the handler ends, and no file is renamed, no sidecar created, no
\* operation added to the edit and no tab closed; the check has run exactly
\* once by then, it never runs twice, and nothing is moved or closed before
\* it has run and reported the tool reachable.
C1_UnreachableMovesNothing ==
    /\ checkCount <= 1
    /\ (checkCount = 1 /\ ~trashInstalled) =>
          /\ pc = "done"
          /\ Cardinality(Kinds("warning")) = 1
          /\ shown[Len(shown)].kind = "warning"
          /\ edit = <<>> /\ applyLog = <<>> /\ passed = <<>>
          /\ NothingMoved /\ TrashUnchanged /\ TabsUnchanged
    /\ (~NothingMoved \/ ~TabsUnchanged \/ edit # <<>>) =>
          checkCount = 1 /\ trashInstalled

C1_Witness ==
    /\ pc = "done" /\ checkCount = 1 /\ ~trashInstalled
    /\ Len(filesToDelete) = 2
    /\ filesToDelete[1] \in openTabs

\* C2: after a keybinding invocation has ended, on whatever path, the
\* clipboard text is what it was before the invocation.
C2_ClipboardRestored ==
    (pc = "done" /\ IsKeybinding(uri, uris)) => clipboard = clip0

\* C3: a target whose unsaved tab the user refused to close is not renamed
\* into the trash, while every other target of the batch is.
C3_DeclinedFileNotMoved ==
    (pc = "done" /\ declined # {}) =>
        /\ \A f \in declined : f \in files /\ f \notin Range(Moved)
        /\ \A f \in Range(filesToDelete) \ declined : f \in Range(Moved)

\* C4: once every target of a batch of distinct files has contributed to the
\* edit, the stored names are pairwise distinct and none is a name already
\* in the trash, and each has its own sidecar <stored name>.trashinfo whose
\* Path is that file's original path.
C4_StoredNamesDistinct ==
    (pc = "apply" /\ Cardinality(Range(filesToDelete)) = Len(filesToDelete)) =>
        /\ \A i, j \in 1..Len(filesToDelete) : i # j => StoredName(i) # StoredName(j)
        /\ \A i \in 1..Len(filesToDelete) :
             /\ StoredName(i) \notin trashFiles
             /\ edit[2 * i].op = "create"
             /\ edit[2 * i].to = InfoName(StoredName(i))
             /\ edit[2 * i].contents.Path = filesToDelete[i]

\* where the move failed: the file whose preparation in the loop threw, or
\* the file whose operation stopped the application of the edit
LoopFailedAt ==
    IF pc = "done" /\ confirm = "Move to Trash" /\ applyLog = <<>>
    THEN Len(passed) + 1 ELSE 0
ApplyFailedAt ==
    IF applyLog # <<>> /\ ~applyLog[1].success
    THEN (applyLog[1].applied \div 2) + 1 ELSE 0
RenameFailedAt ==
    IF ApplyFailedAt # 0 /\ applyLog[1].applied % 2 = 0 THEN ApplyFailedAt ELSE 0
Errors == Kinds("error")

\* C5 as stated: whenever the move fails on file 2 of a 3-file batch, file 1
\* has been moved, files 2 and 3 have not, and exactly one error is shown.
C5_FailFastAsStated ==
    (pc = "done" /\ Len(filesToDelete) = 3 /\ (LoopFailedAt = 2 \/ ApplyFailedAt = 2)) =>
        /\ Moved = <<filesToDelete[1]>>
        /\ Cardinality(Errors) = 1

\* C5 amended: in a 3-file batch, when the application of the edit stops at
\* the rename of file 2, file 1 has been moved with its sidecar, files 2 and
\* 3 have not, and exactly one error message, the last message, is shown;
\* when the preparation of file 2 throws in the loop, the edit is never
\* applied and no file is moved, and exactly one error message is shown.
C5_FailFastOnRename ==
    (pc = "done" /\ Len(filesToDelete) = 3) =>
        /\ RenameFailedAt = 2 =>
             /\ Moved = <<filesToDelete[1]>>
             /\ files = Paths \ {filesToDelete[1]}
             /\ trashFiles = start.trashFiles \cup {StoredName(1)}
             /\ \E s \in trashInfo \ start.trashInfo :
                    s.name = InfoName(StoredName(1)) /\ s.Path = filesToDelete[1]
             /\ Cardinality(Errors) = 1
             /\ shown[Len(shown)] = Msg("error", "Failed to apply workspace edit")
             /\ Kinds("info") = {}
        /\ LoopFailedAt = 2 =>
             /\ Moved = <<>> /\ NothingMoved
             /\ Cardinality(Errors) = 1
             /\ Kinds("info") = {}

C5_Witness ==
    /\ pc = "done" /\ Len(filesToDelete) = 3 /\ RenameFailedAt = 2
    /\ Cardinality(Range(filesToDelete)) = 3

\* C6: when every target had an open tab without unsaved changes, the tool
\* was reachable and the operation completed (the success message is shown),
\* no target's tab is open any more, and each target was handed to the move
\* step exactly once, in the order of the target list, and moved in that order.
C6_CleanTabsClosedInOrder ==
    (/\ pc = "done"
     /\ Kinds("info") # {}
     /\ Range(filesToDelete) \subseteq (start.openTabs \ start.dirtyTabs)) =>
        /\ trashInstalled
        /\ openTabs \cap Range(filesToDelete) = {}
        /\ openTabs = start.openTabs \ Range(filesToDelete)
        /\ passed = filesToDelete
        /\ Moved = filesToDelete

C6_Witness ==
    /\ pc = "done" /\ Kinds("info") # {}
    /\ Len(filesToDelete) = 2
    /\ Range(filesToDelete) \subseteq (start.openTabs \ start.dirtyTabs)
    /\ start.openTabs = Paths

\* C7: with an explicit non-empty list, the resolved target list is that
\* list, also when a single explicit path is given too, and the clipboard is
\* neither read nor written and copyFilePath is not issued.
C7_ExplicitListVerbatim ==
    (pc # "idle" /\ Len(uris) > 0) =>
        /\ filesToDelete = uris
        /\ clipLog = <<>>
        /\ clipboard = clip0

C7_Witness ==
    /\ pc = "done" /\ Len(uris) = 3 /\ uri # NoUri /\ uris[1] # uri
    /\ applyLog # <<>>

\* C8: getUniqueTrashName returns baseName unchanged when it is not in
\* existingNames, and otherwise <name>.<k><ext> for the smallest k >= 2 whose
\* name is not in existingNames; the result is never in existingNames, and
\* the search ends.
C8_ResultCorrect ==
    uPc = "returned" =>
        /\ uResult \notin uExisting
        /\ uBase \notin uExisting => uResult = uBase
        /\ uBase \in uExisting =>
             \E k \in 2..(Cardinality(uExisting) + 1) :
                /\ uResult = Numbered(uBase, k)
                /\ \A j \in 2..(k - 1) : Numbered(uBase, j) \in uExisting
C8_UniqueName == []C8_ResultCorrect /\ <>(uPc = "returned")

C8_Witness ==
    /\ uPc = "returned"
    /\ uBase = <<"n", ".", "2">>
    /\ uResult = <<"n", ".", "4", ".", "2">>
    /\ uExisting = {uBase, Numbered(uBase, 2), Numbered(uBase, 3), <<"o">>}

\* C9: the edit is applied at most once, and only when every target has added
\* its rename and its sidecar creation, in order; nothing is renamed or
\* created before that application; tabs are closed and the success message
\* is shown only when the application reported success, and when it reported
\* failure an error message is shown and no tab is closed.
C9_OneBundledEdit ==
    /\ Len(applyLog) <= 1
    /\ applyLog = <<>> => NothingMoved
    /\ pc \in {"idle", "copy", "read", "check", "confirm", "loop", "apply"} =>
          applyLog = <<>> /\ TabsUnchanged
    /\ applyLog # <<>> =>
          /\ Len(edit) = 2 * Len(filesToDelete)
          /\ \A i \in 1..Len(filesToDelete) :
               /\ edit[2 * i - 1].op = "rename"
               /\ edit[2 * i - 1].from = filesToDelete[i]
               /\ edit[2 * i].op = "create"
               /\ edit[2 * i].to = InfoName(StoredName(i))
               /\ edit[2 * i].contents.Path = filesToDelete[i]
    /\ (Kinds("info") # {} \/ ~TabsUnchanged \/ pc = "close") =>
          applyLog # <<>> /\ applyLog[1].success
    /\ (applyLog # <<>> /\ ~applyLog[1].success) =>
          /\ pc = "done"
          /\ shown[Len(shown)] = Msg("error", "Failed to apply workspace edit")
          /\ TabsUnchanged

C9_Witness ==
    /\ pc = "done" /\ applyLog # <<>> /\ ~applyLog[1].success
    /\ applyLog[1].applied = 3
    /\ Len(filesToDelete) = 3
    /\ filesToDelete[1] \in openTabs

\* C10: unless the modal prompt was answered "Move to Trash", nothing is
\* renamed, no sidecar or trash directory is created, nothing is added to an
\* edit and no tab is closed; any other answer ends the invocation.
C10_ConfirmationGate ==
    /\ confirm # "Move to Trash" =>
          /\ NothingMoved /\ TrashUnchanged /\ TabsUnchanged
          /\ edit = <<>> /\ applyLog = <<>> /\ passed = <<>>
          /\ pc \notin {"loop", "apply", "close"}
    /\ confirm = "dismissed" => pc = "done" /\ shown = <<>>

C10_Witness ==
    /\ pc = "done" /\ confirm = "dismissed"
    /\ Len(filesToDelete) = 2
    /\ Range(filesToDelete) \subseteq openTabs
    /\ trashFiles # {}

====
